---------------------------- MODULE Spec2Model ----------------------------
(***************************************************************************)
(* Model of pgdog's query routing core:                                    *)
(*   - frontend/router/parser/where_clause.rs : WhereClause (extraction of *)
(*     sharding keys from the WHERE clause of a parsed statement);         *)
(*   - frontend/router/parser/route.rs        : Route (routing descriptor  *)
(*     and its builder operations).                                        *)
(* Two specifications: Spec drives WhereClause::new and WhereClause::keys  *)
(* over a bounded set of WHERE-clause syntax trees, RouteSpec drives the   *)
(* constructors and setters of Route.                                      *)
(***************************************************************************)
EXTENDS Integers, Sequences, FiniteSets, TLC

VARIABLES
    where_clause,     \* Option<Box<Node>>: the statement's WHERE subtree
    new_table,        \* Option<&str>: table_name handed to WhereClause::new
    overflow_checks,  \* build profile: are integer overflow checks compiled in
    pc,               \* "start" | "none" | "parsed" | "keys"
    output,           \* WhereClause.output: Vec<Output>
    target,           \* (table_name, column_name) of the last keys() call
    result,           \* outcome of the last keys() call
    route,            \* a Route value
    op                \* the Route operation applied last, with its argument

where_vars == <<where_clause, new_table, overflow_checks, pc, output, target, result>>
route_vars == <<route, op>>
vars == <<where_clause, new_table, overflow_checks, pc, output, target, result, route, op>>

----------------------------------------------------------------------------
(* Option<T>: None is the empty sequence, Some(x) the one-element sequence. *)
None == << >>
Some(x) == <<x>>

----------------------------------------------------------------------------
(* Bounds of the enumerated inputs.                                        *)

\* Placeholder numbers $0 .. $MaxParam appear in the generated operands.
MaxParam == 2
\* Shard indexes 0 .. MaxShard appear in the generated Route inputs.
MaxShard == 1

----------------------------------------------------------------------------
(* The parsed SQL syntax tree (pg_query protobuf nodes), as records tagged *)
(* by the NodeEnum variant.                                                *)

String(s) == [node |-> "String", sval |-> s]
AStar == [node |-> "AStar"]
SubLink == [node |-> "SubLink"]
AArrayExpr == [node |-> "AArrayExpr"]
ColumnRef(fields) == [node |-> "ColumnRef", fields |-> fields]
ParamRef(n) == [node |-> "ParamRef", number |-> n]
Ival(i) == [node |-> "AConst", val |-> Some([val |-> "Ival", ival |-> i])]
Sval(s) == [node |-> "AConst", val |-> Some([val |-> "Sval", sval |-> s])]
Fval(s) == [node |-> "AConst", val |-> Some([val |-> "Fval", fval |-> s])]
Boolval == [node |-> "AConst", val |-> Some([val |-> "Boolval"])]
NullConst == [node |-> "AConst", val |-> None]
List(items) == [node |-> "List", items |-> items]
TypeCast(arg) == [node |-> "TypeCast", arg |-> arg]
NullTest(t, arg) == [node |-> "NullTest", nulltesttype |-> t, arg |-> arg]
BoolExpr(boolop, args) == [node |-> "BoolExpr", boolop |-> boolop, args |-> args]
AExpr(kind, name, l, r) ==
    [node |-> "AExpr", kind |-> kind, name |-> name, lexpr |-> l, rexpr |-> r]

Col(name) == ColumnRef(<<String(name)>>)
QCol(table, name) == ColumnRef(<<String(table), String(name)>>)
Cmp(kind, opname, l, r) == AExpr(kind, <<String(opname)>>, Some(l), Some(r))
Eq(l, r) == Cmp("AexprOp", "=", l, r)

----------------------------------------------------------------------------
(* Output, Column and Key values.                                          *)

Column(table, name) == [table |-> table, name |-> name]

OutParameter(pos, array) == [out |-> "Parameter", pos |-> pos, array |-> array]
OutValue(value, array) == [out |-> "Value", value |-> value, array |-> array]
OutInt(value, array) == [out |-> "Int", ivalue |-> value, array |-> array]
OutColumn(c) == [out |-> "Column", column |-> c]
OutNullCheck(c) == [out |-> "NullCheck", column |-> c]
OutFilter(left, right) == [out |-> "Filter", left |-> left, right |-> right]

KeyConstant(value, array) == [key |-> "Constant", value |-> value, array |-> array]
KeyParameter(pos, array) == [key |-> "Parameter", pos |-> pos, array |-> array]
KeyNull == [key |-> "Null"]

(* The outcome of a call that may panic: the keys returned, or a panic.    *)
Ok(keys) == [panicked |-> FALSE, keys |-> keys]
Panic == [panicked |-> TRUE, keys |-> << >>]
Then(r1, r2) ==
    IF r1.panicked THEN Panic
    ELSE IF r2.panicked THEN Panic
    ELSE Ok(r1.keys \o r2.keys)

----------------------------------------------------------------------------
(* usize arithmetic of get_key.  A usize is 64 bits wide, beyond TLC's     *)
(* integers, so the value u is held as [neg, mag]: u = mag when ~neg and   *)
(* u = 2^64 - mag when neg (the values an i32 sign-extends to).            *)

Usize(k) == [neg |-> FALSE, mag |-> k]

\* `*pos as usize`: an i32 is sign-extended to 64 bits.
AsUsize(n) == IF n >= 0 THEN [neg |-> FALSE, mag |-> n] ELSE [neg |-> TRUE, mag |-> -n]

\* `u - 1` underflows exactly at u = 0.
SubOneUnderflows(u) == ~u.neg /\ u.mag = 0

\* `u - 1` modulo 2^64.
WrappingSubOne(u) ==
    IF u.neg THEN [neg |-> TRUE, mag |-> u.mag + 1]
    ELSE IF u.mag = 0 THEN [neg |-> TRUE, mag |-> 1]
    ELSE [neg |-> FALSE, mag |-> u.mag - 1]


----------------------------------------------------------------------------
(* WhereClause (where_clause.rs).                                          *)

\* slice::first, slice::last and iter().rev().nth(1), each an Option.
First(s) == IF Len(s) >= 1 THEN Some(s[1]) ELSE None
LastOpt(s) == IF Len(s) >= 1 THEN Some(s[Len(s)]) ELSE None
SecondToLast(s) == IF Len(s) >= 2 THEN Some(s[Len(s) - 1]) ELSE None

\* Vec::pop on a temporary: its last element, if any.
Pop(s) == LastOpt(s)

\* WhereClause::string: the text of a String node.
string(node) ==
    IF node # None /\ node[1].node = "String" THEN Some(node[1].sval) ELSE None

\* Only IS NULL is recorded by parse.
is_null_test(nulltesttype) == nulltesttype = "IsNull"

\* A traversal that descends into OR as well.
bool_expr_asserted_or_too(boolop) == boolop \in {"AndExpr", "OrExpr"}

\* Only AND expressions are traversed by parse.
bool_expr_asserted(boolop) == boolop = "AndExpr"

\* The early return of parse on an AExpr: the kind is one of Op, In, OpAny
\* and the operator has a name other than "=".
operator_rejected(kind, name) ==
    /\ kind \in {"AexprOp", "AexprIn", "AexprOpAny"}
    /\ string(First(name)) # None
    /\ string(First(name))[1] # "="

\* An array flag raised by IN (...) as well.
array_flag_in_too(kind) == kind \in {"AexprOpAny", "AexprIn"}

\* The array flag an AExpr hands to both of its sides.
array_flag(kind) == kind = "AexprOpAny"

\* The Output of a literal.
parse_const(val, array) ==
    IF val = None THEN << >>
    ELSE IF val[1].val = "Ival" THEN <<OutInt(val[1].ival, array)>>
    ELSE IF val[1].val = "Sval" THEN <<OutValue(val[1].sval, array)>>
    ELSE IF val[1].val = "Fval" THEN <<OutValue(val[1].fval, array)>>
    ELSE << >>

\* The Output of a column reference: the last field names the column, the
\* field before it the table, and table_name stands in for a missing table.
parse_column_ref(table_name, fields) ==
    LET name == string(LastOpt(fields))
        qualifier == string(SecondToLast(fields))
        table == IF qualifier # None THEN qualifier ELSE table_name
    IN  IF name # None THEN <<OutColumn(Column(table, name[1]))>> ELSE << >>

RECURSIVE parse(_, _, _)
RECURSIVE parse_all(_, _, _)

\* The loops `for arg in ... { keys.extend(Self::parse(table_name, arg, array)) }`.
parse_all(table_name, nodes, array) ==
    IF nodes = << >> THEN << >>
    ELSE parse(table_name, nodes[1], array) \o parse_all(table_name, Tail(nodes), array)

\* WhereClause::parse.
parse(table_name, node, array) ==
    CASE node.node = "NullTest" ->
            IF is_null_test(node.nulltesttype)
            THEN LET left == IF node.arg = None THEN None
                             ELSE Pop(parse(table_name, node.arg[1], array))
                 IN  IF left # None /\ left[1].out = "Column"
                     THEN <<OutNullCheck(left[1].column)>>
                     ELSE << >>
            ELSE << >>
      [] node.node = "BoolExpr" ->
            IF ~bool_expr_asserted(node.boolop) THEN << >>
            ELSE parse_all(table_name, node.args, array)
      [] node.node = "AExpr" ->
            IF operator_rejected(node.kind, node.name) THEN << >>
            ELSE IF node.lexpr # None /\ node.rexpr # None
                 THEN <<OutFilter(parse(table_name, node.lexpr[1], array_flag(node.kind)),
                                  parse(table_name, node.rexpr[1], array_flag(node.kind)))>>
                 ELSE << >>
      [] node.node = "AConst" -> parse_const(node.val, array)
      [] node.node = "ColumnRef" -> parse_column_ref(table_name, node.fields)
      [] node.node = "ParamRef" -> <<OutParameter(node.number, array)>>
      [] node.node = "List" -> parse_all(table_name, node.items, array)
      [] node.node = "TypeCast" ->
            IF node.arg # None THEN parse(table_name, node.arg[1], array) ELSE << >>
      [] OTHER -> << >>

\* WhereClause::new: None without a WHERE clause, else the parsed output.
new(table_name, clause) ==
    IF clause = None THEN None ELSE Some([output |-> parse(table_name, clause[1], FALSE)])

\* WhereClause::column_match.
column_match(column, table, name) ==
    IF table # None /\ column.table # None /\ table # column.table
    THEN FALSE
    ELSE column.name = name

\* The NullCheck test of search_for_keys.
null_check_match(c, table_name, column_name) ==
    c.name = column_name /\ c.table = table_name

\* `*pos as usize - 1`: with overflow checks the subtraction panics on
\* underflow, without them it wraps.
param_index(pos) ==
    IF SubOneUnderflows(AsUsize(pos)) /\ overflow_checks
    THEN [panicked |-> TRUE, pos |-> Usize(0)]
    ELSE [panicked |-> FALSE, pos |-> WrappingSubOne(AsUsize(pos))]

\* WhereClause::get_key: Option<Key>, or a panic.
get_key(o) ==
    CASE o.out = "Int" ->
            [panicked |-> FALSE, key |-> Some(KeyConstant(ToString(o.ivalue), o.array))]
      [] o.out = "Parameter" ->
            IF param_index(o.pos).panicked
            THEN [panicked |-> TRUE, key |-> None]
            ELSE [panicked |-> FALSE,
                  key |-> Some(KeyParameter(param_index(o.pos).pos, o.array))]
      [] o.out = "Value" ->
            [panicked |-> FALSE, key |-> Some(KeyConstant(o.value, o.array))]
      [] OTHER -> [panicked |-> FALSE, key |-> None]

\* The loop `for output in output.iter() { if let Some(key) = get_key(output) ... }`.
RECURSIVE collect_keys(_)
collect_keys(outputs) ==
    IF outputs = << >> THEN Ok(<< >>)
    ELSE IF get_key(outputs[1]).panicked THEN Panic
    ELSE Then(Ok(get_key(outputs[1]).key), collect_keys(Tail(outputs)))

\* A match without the (output, [Column]) arm.
filter_arm_left_only(left, right) ==
    IF Len(left) = 1 /\ left[1].out = "Column" THEN "left_column" ELSE "recurse"

\* Which arm of the match on (left, right) is taken.
filter_arm(left, right) ==
    IF Len(left) = 1 /\ left[1].out = "Column" THEN "left_column"
    ELSE IF Len(right) = 1 /\ right[1].out = "Column" THEN "right_column"
    ELSE "recurse"

RECURSIVE search_for_keys(_, _, _)
RECURSIVE search_all(_, _, _)

\* The loops `for output in ... { keys.extend(Self::search_for_keys(...)) }`.
search_all(outputs, table_name, column_name) ==
    IF outputs = << >> THEN Ok(<< >>)
    ELSE Then(search_for_keys(outputs[1], table_name, column_name),
              search_all(Tail(outputs), table_name, column_name))

\* WhereClause::search_for_keys.
search_for_keys(o, table_name, column_name) ==
    LET from_filter ==
            IF o.out # "Filter" THEN Ok(<< >>)
            ELSE CASE filter_arm(o.left, o.right) = "left_column" ->
                        IF column_match(o.left[1].column, table_name, column_name)
                        THEN collect_keys(o.right) ELSE Ok(<< >>)
                   [] filter_arm(o.left, o.right) = "right_column" ->
                        IF column_match(o.right[1].column, table_name, column_name)
                        THEN collect_keys(o.left) ELSE Ok(<< >>)
                   [] OTHER ->
                        Then(search_all(o.left, table_name, column_name),
                             search_all(o.right, table_name, column_name))
        from_null_check ==
            IF o.out = "NullCheck" /\ null_check_match(o.column, table_name, column_name)
            THEN Ok(<<KeyNull>>) ELSE Ok(<< >>)
    IN  Then(from_filter, from_null_check)

\* WhereClause::keys.
keys(self, table_name, column_name) == search_all(self.output, table_name, column_name)

----------------------------------------------------------------------------
(* The WHERE clauses the model is run on.                                  *)

Tables == {"users", "sharded"}
ColumnNames == {"id", "tenant_id"}
TableOptions == {None} \cup {Some(t) : t \in Tables}

ColumnRefs ==
    {Col(n) : n \in ColumnNames}
    \cup {QCol(t, n) : t \in Tables, n \in ColumnNames}
    \cup {ColumnRef(<<String("users"), AStar>>)}

Constants == {Ival(5), Sval("test"), Fval("1.5"), Boolval, NullConst}

\* $0 is a placeholder the raw parser accepts.
Params == {ParamRef(n) : n \in 0..MaxParam}

Casts == {TypeCast(Some(Ival(5))), TypeCast(Some(ParamRef(1)))}

\* The right-hand sides of IN (...), and of BETWEEN (always two items).
Lists ==
    { List(<<ParamRef(1), ParamRef(2)>>),
      List(<<Ival(5), Ival(5)>>),
      List(<<Sval("test"), Col("id"), ParamRef(1)>>) }

BetweenLists == {List(<<ParamRef(1), ParamRef(2)>>), List(<<Ival(5), Ival(5)>>)}

NestedOperands == {Eq(Col("id"), Ival(5)), NullTest("IsNull", Some(Col("id")))}

\* The operands of a scalar comparison; SubLink is id = (SELECT 5).
Operands ==
    ColumnRefs \cup Constants \cup Params \cup Casts \cup NestedOperands \cup {SubLink}

\* The array operands of = ANY(...) and = ALL(...).
ArrayOperands ==
    ColumnRefs \cup Params \cup {Sval("{1, 2, 3}"), TypeCast(Some(ParamRef(1))), AArrayExpr}

\* AExpr nodes as the parser builds them: =, <> and <; IN and NOT IN over a
\* List; = ANY and <> ANY, = ALL over an array operand; LIKE; BETWEEN over a
\* two-item List; IS DISTINCT FROM; NULLIF.
Comparisons ==
    {Cmp("AexprOp", o, l, r) : o \in {"=", "<>", "<"}, l \in Operands, r \in Operands}
    \cup {Cmp("AexprIn", o, l, r) : o \in {"=", "<>"}, l \in Operands, r \in Lists}
    \cup {Cmp("AexprOpAny", o, l, r) : o \in {"=", "<>"}, l \in Operands, r \in ArrayOperands}
    \cup {Cmp("AexprOpAll", "=", l, r) : l \in Operands, r \in ArrayOperands}
    \cup {Cmp("AexprLike", "~~", l, r) : l \in Operands, r \in Operands}
    \cup {Cmp("AexprBetween", "BETWEEN", l, r) : l \in Operands, r \in BetweenLists}
    \cup {Cmp(k, "=", l, r) : k \in {"AexprDistinct", "AexprNullif"},
                              l \in Operands, r \in Operands}

\* A prefix operator has no left operand.
PrefixComparisons == {AExpr("AexprOp", <<String(o)>>, None, Some(Ival(5))) : o \in {"=", "-"}}

NullTests ==
    { NullTest(t, Some(a)) :
        t \in {"IsNull", "IsNotNull"},
        a \in ColumnRefs \cup {TypeCast(Some(Col("id"))), Ival(5), Eq(Col("id"), Ival(5))} }

Atoms ==
    { Eq(Col("id"), Ival(5)),
      Eq(ParamRef(1), Col("tenant_id")),
      Eq(QCol("users", "id"), ParamRef(0)),
      Cmp("AexprOp", "<>", Col("id"), Ival(5)),
      Cmp("AexprIn", "=", Col("tenant_id"), List(<<ParamRef(1), ParamRef(2)>>)),
      NullTest("IsNull", Some(Col("id"))) }

BoolOps == {"AndExpr", "OrExpr", "NotExpr"}

FlatBoolExprs == {BoolExpr(b, <<x, y>>) : b \in BoolOps, x \in Atoms, y \in Atoms}

InnerAtoms ==
    { Eq(Col("id"), Ival(5)),
      Eq(Col("tenant_id"), Sval("test")),
      NullTest("IsNull", Some(Col("tenant_id"))) }

NestedBoolExprs ==
    { BoolExpr(b, <<x, BoolExpr(c, <<y, z>>)>>) :
        b \in {"AndExpr", "OrExpr"}, c \in BoolOps,
        x \in Atoms, y \in InnerAtoms, z \in InnerAtoms }

\* SELECT * FROM sharded WHERE id = 5 AND (something_else != 6 OR column_a = 'test')
TestWhereClause ==
    BoolExpr("AndExpr",
        << Eq(Col("id"), Ival(5)),
           BoolExpr("OrExpr",
               << Cmp("AexprOp", "<>", Col("something_else"), Ival(6)),
                  Eq(Col("column_a"), Sval("test")) >>) >>)

\* SELECT * FROM users WHERE tenant_id IN ($1, $2, $3, $4)
TestInClause ==
    Cmp("AexprIn", "=", Col("tenant_id"),
        List(<<ParamRef(1), ParamRef(2), ParamRef(3), ParamRef(4)>>))

\* SELECT * FROM users WHERE tenant_id = ANY('{1, 2, 3}')
TestAny == Cmp("AexprOpAny", "=", Col("tenant_id"), Sval("{1, 2, 3}"))

WhereClauses ==
    {None} \cup
    { Some(n) : n \in Comparisons \cup PrefixComparisons \cup NullTests
                      \cup FlatBoolExprs \cup NestedBoolExprs
                      \cup {TestWhereClause, TestInClause, TestAny} }

----------------------------------------------------------------------------
(* Shard and Route (route.rs).                                             *)

ShardDirect(i) == [shard |-> "Direct", index |-> i]
ShardMulti(shards) == [shard |-> "Multi", shards |-> shards]
ShardAll == [shard |-> "All"]

\* Shard::all.
shard_all(self) == self.shard = "All"

\* impl From<Option<usize>> for Shard.
shard_from(value) == IF value # None THEN ShardDirect(value[1]) ELSE ShardAll

\* Aggregate and Limit are declared outside route.rs: Route only stores them,
\* takes their Default and asks an Aggregate whether it is empty.
AggregateDefault == [targets |-> << >>, group_by |-> << >>]
aggregate_is_empty(a) == a.targets = << >>
LimitDefault == [limit |-> None, offset |-> None]

\* LockingBehavior is declared outside route.rs, which names only Lock.
LockingBehaviors == {"Lock", "Unlock", "None"}
FunctionBehaviors == [writes : BOOLEAN, locking_behavior : LockingBehaviors]

\* #[derive(Default)] on Route.
RouteDefault ==
    [ shard |-> ShardAll, read |-> FALSE, order_by |-> << >>,
      aggregate |-> AggregateDefault, limit |-> LimitDefault,
      lock_session |-> FALSE, distinct |-> None ]

\* Route::select.
select(shard, order_by, aggregate, limit, distinct) ==
    [RouteDefault EXCEPT !.shard = shard, !.order_by = order_by, !.read = TRUE,
                         !.aggregate = aggregate, !.limit = limit, !.distinct = distinct]

\* Route::read.
read(shard) == [RouteDefault EXCEPT !.shard = shard, !.read = TRUE]

\* A constructor that routes to a replica in place of the primary.
write_as_read(shard) == [RouteDefault EXCEPT !.shard = shard, !.read = TRUE]

\* Route::write.
write(shard) == [RouteDefault EXCEPT !.shard = shard]

is_read(self) == self.read
is_write(self) == ~is_read(self)
is_all_shards(self) == self.shard.shard = "All"
is_multi_shard(self) == self.shard.shard = "Multi"
is_cross_shard(self) == is_all_shards(self) \/ is_multi_shard(self)

set_shard_mut(self, shard) == [self EXCEPT !.shard = ShardDirect(shard)]
set_shard(self, shard) == set_shard_mut(self, shard)

should_buffer(self) ==
    self.order_by # << >> \/ ~aggregate_is_empty(self.aggregate) \/ self.distinct # None

set_read_mut(self, r) == [self EXCEPT !.read = r]
set_read(self, r) == set_read_mut(self, r)

\* A set_write_mut that only ever raises the session lock.
set_write_mut_sticky_lock(self, w) ==
    [self EXCEPT !.read = ~w.writes,
                 !.lock_session = self.lock_session \/ w.locking_behavior = "Lock"]

\* Route::set_write_mut.
set_write_mut(self, w) ==
    [self EXCEPT !.read = ~w.writes,
                 !.lock_session = (w.locking_behavior = "Lock")]
set_write(self, w) == set_write_mut(self, w)

\* A set_lock_session that toggles the flag.
set_lock_session_toggle(self) == [self EXCEPT !.lock_session = ~self.lock_session]

\* Route::set_lock_session.
set_lock_session(self) == [self EXCEPT !.lock_session = TRUE]

lock_session(self) == self.lock_session

NoOp == [name |-> "default"]

----------------------------------------------------------------------------
(* Spec: WhereClause::new on a statement's WHERE clause, then any number   *)
(* of WhereClause::keys calls on the result.                               *)

WhereInit ==
    /\ where_clause \in WhereClauses
    /\ new_table \in TableOptions
    /\ overflow_checks \in BOOLEAN
    /\ pc = "start"
    /\ output = << >>
    /\ target = <<None, "">>
    /\ result = Ok(<< >>)

Init == WhereInit /\ route = RouteDefault /\ op = NoOp

\* WhereClause::new(table_name, &stmt.where_clause).
New ==
    /\ pc = "start"
    /\ pc' = IF new(new_table, where_clause) = None THEN "none" ELSE "parsed"
    /\ output' = IF new(new_table, where_clause) = None THEN << >>
                 ELSE new(new_table, where_clause)[1].output
    /\ UNCHANGED <<where_clause, new_table, overflow_checks, target, result>>
    /\ UNCHANGED route_vars

\* where_.keys(table_name, column_name).
Keys(table_name, column_name) ==
    /\ pc \in {"parsed", "keys"}
    /\ pc' = "keys"
    /\ target' = <<table_name, column_name>>
    /\ result' = keys([output |-> output], table_name, column_name)
    /\ UNCHANGED <<where_clause, new_table, overflow_checks, output>>
    /\ UNCHANGED route_vars

Next ==
    \/ New
    \/ \E t \in TableOptions, c \in ColumnNames : Keys(t, c)

Spec == Init /\ [][Next]_vars

----------------------------------------------------------------------------
(* Properties of WhereClause, checked under Spec.                          *)

\* keys() has been called on the parsed clause; clause is its root node.
Resolved == pc = "keys"
clause == where_clause[1]

ValueKeys(ks) == {i \in 1..Len(ks) : ks[i].key \in {"Constant", "Parameter"}}

\* An equality predicate: kind Op, In or OpAny with the operator name "=".
IsEqualityPredicate(n) ==
    /\ n.kind \in {"AexprOp", "AexprIn", "AexprOpAny"}
    /\ string(First(n.name)) = Some("=")

\* C1: a comparison whose kind is not Op, In or OpAny, or whose operator is
\* not "=", emits no Filter and yields no key, for every target.
C1_OnlyEqualityContributes ==
    (Resolved /\ clause.node = "AExpr" /\ ~IsEqualityPredicate(clause))
        => (output = << >> /\ result = Ok(<< >>))

\* The kinds of all comparisons in a syntax tree.
RECURSIVE KindsIn(_)
RECURSIVE KindsInAll(_)
KindsInAll(nodes) ==
    IF nodes = << >> THEN {} ELSE KindsIn(nodes[1]) \cup KindsInAll(Tail(nodes))
KindsIn(n) ==
    CASE n.node = "AExpr" -> {n.kind} \cup KindsInAll(n.lexpr) \cup KindsInAll(n.rexpr)
      [] n.node = "BoolExpr" -> KindsInAll(n.args)
      [] n.node = "List" -> KindsInAll(n.items)
      [] n.node \in {"TypeCast", "NullTest"} -> KindsInAll(n.arg)
      [] OTHER -> {}

\* C2 as claimed: the array flag of a key is true iff its value comes from
\* an = ANY(...) or an IN (...) construct.
C2_ArrayIffAnyOrIn ==
    (Resolved /\ ~result.panicked) =>
        /\ KindsIn(clause) \subseteq {"AexprOpAny", "AexprIn"}
              => \A i \in ValueKeys(result.keys) : result.keys[i].array
        /\ KindsIn(clause) \cap {"AexprOpAny", "AexprIn"} = {}
              => \A i \in ValueKeys(result.keys) : ~result.keys[i].array

\* C2 amended: the array flag of a key is true iff its value comes from an
\* = ANY(...) construct; it is false for IN (...) and for col = value.
C2_ArrayIffAny ==
    (Resolved /\ ~result.panicked) =>
        /\ KindsIn(clause) \subseteq {"AexprOpAny"}
              => \A i \in ValueKeys(result.keys) : result.keys[i].array
        /\ "AexprOpAny" \notin KindsIn(clause)
              => \A i \in ValueKeys(result.keys) : ~result.keys[i].array

C2_Witness ==
    /\ Resolved
    /\ where_clause = Some(TestAny)
    /\ result = Ok(<<KeyConstant("{1, 2, 3}", TRUE)>>)

\* The conjuncts of an AND that are not themselves OR or NOT expressions.
IsRejectedBoolExpr(n) == n.node = "BoolExpr" /\ n.boolop # "AndExpr"
KeptConjuncts(args) == SelectSeq(args, LAMBDA a : ~IsRejectedBoolExpr(a))

\* C3: an OR or NOT expression contributes no key from its subtree, the
\* other conjuncts of an enclosing AND contribute as if it were absent, and
\* `id = 5 AND (something_else != 6 OR column_a = 'test')` resolved for
\* (sharded, id) yields exactly Constant "5" with array = false.
C3_OnlyAndTraversed ==
    (Resolved /\ clause.node = "BoolExpr") =>
        /\ clause.boolop # "AndExpr" => (output = << >> /\ result = Ok(<< >>))
        /\ clause.boolop = "AndExpr" =>
              /\ output = parse_all(new_table, KeptConjuncts(clause.args), FALSE)
              /\ result = keys([output |-> parse_all(new_table, KeptConjuncts(clause.args), FALSE)],
                               target[1], target[2])
        /\ (clause = TestWhereClause /\ column_match(Column(new_table, "id"), target[1], target[2]))
              => result = Ok(<<KeyConstant("5", FALSE)>>)

C3_Witness ==
    /\ Resolved
    /\ where_clause = Some(TestWhereClause)
    /\ new_table = Some("sharded")
    /\ target = <<Some("sharded"), "id">>
    /\ result = Ok(<<KeyConstant("5", FALSE)>>)

\* C4: Key::Null is emitted iff the clause holds an IS NULL test on a column
\* that matches the target under the column match rule, once per test.
C4_NullKeyIffColumnMatches ==
    (Resolved /\ clause.node = "NullTest" /\ clause.arg[1].node = "ColumnRef"
        /\ parse_column_ref(new_table, clause.arg[1].fields) # << >>) =>
        result = IF /\ clause.nulltesttype = "IsNull"
                    /\ column_match(parse_column_ref(new_table, clause.arg[1].fields)[1].column,
                                    target[1], target[2])
                 THEN Ok(<<KeyNull>>)
                 ELSE Ok(<< >>)

\* The column match rule: equal names, and equal qualifiers when both are present.
MatchRule(c, table, name) ==
    c.name = name /\ (table = None \/ c.table = None \/ table = c.table)

IsValue(o) == o.out \in {"Int", "Value", "Parameter"}
Values(outputs) == SelectSeq(outputs, IsValue)

\* Key k is the key of value output o.
KeyOf(k, o) ==
    CASE o.out = "Int" -> k = KeyConstant(ToString(o.ivalue), o.array)
      [] o.out = "Value" -> k = KeyConstant(o.value, o.array)
      [] o.out = "Parameter" -> k.key = "Parameter" /\ k.array = o.array

\* The keys are those of the value outputs, one each and in order.
KeysOfValues(r, outputs) ==
    /\ ~r.panicked
    /\ Len(r.keys) = Len(Values(outputs))
    /\ \A i \in 1..Len(r.keys) : KeyOf(r.keys[i], Values(outputs)[i])

IsSingleColumn(side) == Len(side) = 1 /\ side[1].out = "Column"

\* C5: a Filter with a single Column c on one side yields keys iff c matches
\* the target; then every constant and parameter of the other side becomes
\* a key, in order and without deduplication, and nothing else does.
C5_FilterKeysIffColumnMatches ==
    (Resolved /\ clause.node = "AExpr" /\ output # << >>
        /\ (IsSingleColumn(output[1].left) \/ IsSingleColumn(output[1].right))) =>
        LET f == output[1]
            c == IF IsSingleColumn(f.left) THEN f.left[1].column ELSE f.right[1].column
            other == IF IsSingleColumn(f.left) THEN f.right ELSE f.left
        IN  IF MatchRule(c, target[1], target[2])
            THEN KeysOfValues(result, other)
            ELSE result = Ok(<< >>)

\* col = v with v a constant, a parameter, a cast of either, or a column.
ValueLike == Constants \cup Params \cup Casts \cup ColumnRefs
IsColumnEquality(n) ==
    /\ n.node = "AExpr" /\ n.kind = "AexprOp" /\ n.name = <<String("=")>>
    /\ n.lexpr # None /\ n.rexpr # None
    /\ \/ n.lexpr[1] \in ColumnRefs /\ n.rexpr[1] \in ValueLike
       \/ n.rexpr[1] \in ColumnRefs /\ n.lexpr[1] \in ValueLike

\* The clause with the two sides of every column equality exchanged.
RECURSIVE Flip(_)
RECURSIVE FlipAll(_)
FlipAll(nodes) ==
    IF nodes = << >> THEN << >> ELSE <<Flip(nodes[1])>> \o FlipAll(Tail(nodes))
Flip(n) ==
    IF IsColumnEquality(n) THEN AExpr(n.kind, n.name, n.rexpr, n.lexpr)
    ELSE IF n.node = "BoolExpr" THEN BoolExpr(n.boolop, FlipAll(n.args))
    ELSE n

\* C6: col = v and v = col yield identical key lists, also as conjuncts of an AND.
C6_Commutativity ==
    (Resolved /\ Flip(clause) # clause) =>
        result = keys(new(new_table, Some(Flip(clause)))[1], target[1], target[2])

C6_Witness ==
    /\ Resolved
    /\ where_clause = Some(Eq(ParamRef(1), Col("tenant_id")))
    /\ target[2] = "tenant_id"
    /\ result = Ok(<<KeyParameter(Usize(0), FALSE)>>)

\* The placeholder numbers compared to the column, in order.
ParamNumbers(n) ==
    IF n.node = "ParamRef" THEN <<n.number>>
    ELSE IF n.node = "List" /\ \A i \in 1..Len(n.items) : n.items[i].node = "ParamRef"
         THEN [i \in 1..Len(n.items) |-> n.items[i].number]
    ELSE << >>

\* C7: for every placeholder number n compared to the sharding column, keys
\* returns normally and the Key::Parameter has pos = n - 1 >= 0;
\* tenant_id IN ($1, $2, $3, $4) yields pos 0, 1, 2, 3 in that order.
C7_ParameterPosIsNMinusOne ==
    (Resolved /\ clause.node = "AExpr" /\ IsEqualityPredicate(clause)
        /\ clause.lexpr # None /\ clause.lexpr[1] \in ColumnRefs
        /\ parse_column_ref(new_table, clause.lexpr[1].fields) # << >>
        /\ column_match(parse_column_ref(new_table, clause.lexpr[1].fields)[1].column,
                        target[1], target[2])
        /\ ParamNumbers(clause.rexpr[1]) # << >>) =>
        LET ns == ParamNumbers(clause.rexpr[1])
        IN  /\ ~result.panicked
            /\ Len(result.keys) = Len(ns)
            /\ \A i \in 1..Len(ns) :
                  /\ ns[i] - 1 >= 0
                  /\ result.keys[i].key = "Parameter"
                  /\ result.keys[i].pos = Usize(ns[i] - 1)

----------------------------------------------------------------------------
(* RouteSpec: a Route is built by a constructor and composed by setters.   *)

Shards == {ShardDirect(i) : i \in 0..MaxShard} \cup {ShardMulti(<<0, 1>>), ShardAll}
OptionShards == {None} \cup {Some(i) : i \in 0..MaxShard}
OrderBys == {<< >>, <<[order |-> "Asc", column |-> 1]>>}
Aggregates == {AggregateDefault, [targets |-> <<[function |-> "Count", column |-> 0]>>, group_by |-> << >>]}
Limits == {LimitDefault, [limit |-> Some(10), offset |-> None]}
Distincts == {None, Some([distinct |-> "Row"])}

WhereIdle ==
    /\ where_clause = None
    /\ new_table = None
    /\ overflow_checks = FALSE
    /\ pc = "start"
    /\ output = << >>
    /\ target = <<None, "">>
    /\ result = Ok(<< >>)

RouteInit == WhereIdle /\ route = RouteDefault /\ op = NoOp

Select(shard, order_by, aggregate, limit, distinct) ==
    /\ route' = select(shard, order_by, aggregate, limit, distinct)
    /\ op' = [name |-> "select"]
    /\ UNCHANGED where_vars

Read(shard) ==
    /\ route' = read(shard)
    /\ op' = [name |-> "read"]
    /\ UNCHANGED where_vars

Write(shard) ==
    /\ route' = write(shard)
    /\ op' = [name |-> "write"]
    /\ UNCHANGED where_vars

SetShardMut(shard) ==
    /\ route' = set_shard_mut(route, shard)
    /\ op' = [name |-> "set_shard_mut"]
    /\ UNCHANGED where_vars

SetShard(shard) ==
    /\ route' = set_shard(route, shard)
    /\ op' = [name |-> "set_shard"]
    /\ UNCHANGED where_vars

SetReadMut(r) ==
    /\ route' = set_read_mut(route, r)
    /\ op' = [name |-> "set_read_mut"]
    /\ UNCHANGED where_vars

SetRead(r) ==
    /\ route' = set_read(route, r)
    /\ op' = [name |-> "set_read"]
    /\ UNCHANGED where_vars

SetWriteMut(w) ==
    /\ route' = set_write_mut(route, w)
    /\ op' = [name |-> "set_write_mut", write |-> w]
    /\ UNCHANGED where_vars

SetWrite(w) ==
    /\ route' = set_write(route, w)
    /\ op' = [name |-> "set_write", write |-> w]
    /\ UNCHANGED where_vars

SetLockSession ==
    /\ route' = set_lock_session(route)
    /\ op' = [name |-> "set_lock_session"]
    /\ UNCHANGED where_vars

RouteNext ==
    \/ \E s \in Shards, o \in OrderBys, a \in Aggregates, l \in Limits, d \in Distincts :
          Select(s, o, a, l, d)
    \/ \E s \in Shards : Read(s)
    \/ \E v \in OptionShards : Read(shard_from(v))
    \/ \E s \in Shards : Write(s)
    \/ \E v \in OptionShards : Write(shard_from(v))
    \/ \E i \in 0..MaxShard : SetShardMut(i)
    \/ \E i \in 0..MaxShard : SetShard(i)
    \/ \E r \in BOOLEAN : SetReadMut(r)
    \/ \E r \in BOOLEAN : SetRead(r)
    \/ \E w \in FunctionBehaviors : SetWriteMut(w)
    \/ \E w \in FunctionBehaviors : SetWrite(w)
    \/ SetLockSession

RouteSpec == RouteInit /\ [][RouteNext]_vars

----------------------------------------------------------------------------
(* Properties of Route, checked under RouteSpec.                           *)

SetWriteOps == {"set_write", "set_write_mut"}
Setters ==
    {"set_read", "set_read_mut", "set_write", "set_write_mut",
     "set_shard", "set_shard_mut", "set_lock_session"}

\* C8: after set_write(fb), is_read() = !fb.writes and lock_session() is true
\* iff fb.locking_behavior is Lock, the two independently; shard, order_by,
\* aggregate, limit and distinct are unchanged.
C8_SetWrite ==
    [][op'.name \in SetWriteOps =>
          /\ is_read(route') = ~op'.write.writes
          /\ lock_session(route') = (op'.write.locking_behavior = "Lock")
          /\ route'.shard = route.shard
          /\ route'.order_by = route.order_by
          /\ route'.aggregate = route.aggregate
          /\ route'.limit = route.limit
          /\ route'.distinct = route.distinct]_vars

\* A behaviour that locks but does not write, applied to a buffered select.
C8_Witness ==
    /\ op = [name |-> "set_write", write |-> [writes |-> FALSE, locking_behavior |-> "Lock"]]
    /\ is_read(route)
    /\ lock_session(route)
    /\ should_buffer(route)

\* C9: write(shard) gives is_read() = false, lock_session() = false and
\* should_buffer() = false; select(...) and read(shard) give is_read() = true;
\* and is_read() = !is_write() in every Route.
C9_ReadIntent ==
    /\ op.name = "write" => (~is_read(route) /\ ~lock_session(route) /\ ~should_buffer(route))
    /\ op.name \in {"select", "read"} => is_read(route)
    /\ is_read(route) = ~is_write(route)

C9_Witness ==
    /\ op.name = "write"
    /\ route.shard = ShardDirect(1)
    /\ is_write(route)

\* C10 as claimed: once lock_session() is true it stays true under every setter.
C10_LockMonotone ==
    [][(lock_session(route) /\ op'.name \in Setters) => lock_session(route')]_vars

\* C10 amended: once lock_session() is true it stays true under set_read,
\* set_shard, set_lock_session and a set_write whose behaviour is Lock; a
\* set_write with any other locking behaviour resets it.
C10_LockKeptUnlessNonLockingWrite ==
    [][(lock_session(route) /\ op'.name \in Setters) =>
          IF op'.name \in SetWriteOps /\ op'.write.locking_behavior # "Lock"
          THEN ~lock_session(route')
          ELSE lock_session(route')]_vars

\* The flag, set earlier, has survived a set_read.
C10_Witness ==
    /\ op.name = "set_read"
    /\ lock_session(route)
    /\ is_read(route)

=============================================================================
